---- MODULE Spec2Model ----
(***************************************************************************)
(* Model of the skill-icons repository's two scripts:                      *)
(*   - the release script (version bump, changelog, commit, tag, push,     *)
(*     GitHub release, build, publish, rollback on failure);               *)
(*   - the build script (icon loading, per-format component emission).     *)
(* The two pipelines share no state; each has its own specification.       *)
(***************************************************************************)
EXTENDS Integers, Sequences, FiniteSets, TLC

VARIABLES
    \* ---- release script: inputs and environment --------------------------
    isDryRun,        \* args.dry
    positional,      \* positionals[0], or NoArg when no argument was given
    currentVersion,  \* version of the root manifest read at start-up
    token,           \* process.env.GITHUB_TOKEN is set
    writable,        \* set of manifests whose package.json can be written;
                     \* fixed for the run: a manifest that was written once
                     \* can be written again
    branch,          \* the branch checked out
    \* ---- release script: program state -----------------------------------
    pc,              \* position of main(): the step about to run
    versionUpdated,  \* the module-level rollback flag
    targetVersion,   \* main's local targetVersion
    manifest,        \* manifest -> value of its version field on disk
    hasSection,      \* CHANGELOG.md holds a "# <target> (...)" section
    executed,        \* commands handed to execSync, in order
    logged,          \* messages printed by dryRun / publishPackage / handlers
    prompts,         \* prompts shown to the user, in order
    git,             \* effects on the repository and the remote
    release,         \* publishGitHubRelease: notes taken, and the calls made
                     \* ("browser" for open(url), "api" for createRelease)
    published,       \* packages uploaded to the registry
    syncFault,       \* the call of isInSyncWithRemote that threw, or "none"
    attempts,        \* what pnpm publish answered, per package tried, in order
    remoteSha,       \* data.sha of the GitHub response ("undefined" if absent)
    localHead,       \* git rev-parse HEAD
    outcome,         \* how main() ended: "running", a return reason, "thrown"
    thrown,          \* step whose failure rejected main(), or "none"
    rolledBack,      \* the catch handler ran updatePackagesVersion
    exitCode,        \* -1 while running, else the process exit status
    \* ---- build script ----------------------------------------------------
    assets,          \* the listing of ./assets: file stems, in readdir order
    bpc,             \* format -> position of build(target, format)
    cb,              \* <<format, i>> -> state of the flatMap callback of icon i
    wr,              \* <<format, i, kind>> -> state of that ensureWrite call
    disk,            \* output path -> content of the file
    mainPc,          \* position of the build script's main()
    console,         \* lines printed by the build script, in order
    faultsLeft       \* number of operations of the build that may still fail

relVars == <<isDryRun, positional, currentVersion, token, writable, branch, pc,
             versionUpdated, targetVersion, manifest, hasSection, executed,
             logged, prompts, git, release, published, syncFault, attempts,
             remoteSha, localHead,
             outcome, thrown, rolledBack, exitCode>>

buildVars == <<assets, bpc, cb, wr, disk, mainPc, console, faultsLeft>>

vars == <<relVars, buildVars>>

-----------------------------------------------------------------------------
(* Bounds *)

\* number of non-private workspace packages under packages/
NumPackages == 2

\* number of files in the assets directory
NumIcons == 2

\* number of operations of one build run that may fail
MaxFaults == 1

-----------------------------------------------------------------------------
(* Version strings.  A string that semver parses is a record with its      *)
(* numbers and whether it carries a prerelease tag; the strings semver     *)
(* rejects are the records with valid = FALSE.                             *)

V(a, b, c, p) == [valid |-> TRUE, major |-> a, minor |-> b, patch |-> c, pre |-> p]

\* the empty string (also what positionals[0] is when no argument is given)
NoArg == [valid |-> FALSE, major |-> 0, minor |-> 0, patch |-> 0, pre |-> FALSE]

\* a non-empty string that is not a semantic version, e.g. "not-a-version"
NotAVersion == [valid |-> FALSE, major |-> 1, minor |-> 0, patch |-> 0, pre |-> FALSE]

CurrentVersions == { V(1, 2, 3, FALSE), V(1, 9, 0, FALSE), V(2, 0, 0, TRUE) }

\* what the user may type at the custom prompt or pass as the argument
TypedVersions == { V(2, 0, 0, FALSE), V(1, 3, 0, FALSE), NotAVersion, NoArg }

\* mutant: the validity check accepts every string
SemverValid_AcceptAll(v) == TRUE

\* semver.valid(v) is non-null
SemverValid(v) == v.valid

\* mutant: the lower fields are not reset and a prerelease is bumped like
\* a release
inc_NoReset(rel) ==
    LET v == currentVersion IN
    IF ~v.valid THEN NotAVersion
    ELSE CASE rel = "major" -> V(v.major + 1, v.minor, v.patch, FALSE)
           [] rel = "minor" -> V(v.major, v.minor + 1, v.patch, FALSE)
           [] rel = "patch" -> V(v.major, v.minor, v.patch + 1, FALSE)

\* semver.inc(currentVersion, release)
inc(rel) ==
    LET v == currentVersion IN
    IF ~v.valid THEN NotAVersion  \* null, printed as "null"
    ELSE CASE rel = "major" ->
                V(IF v.minor # 0 \/ v.patch # 0 \/ ~v.pre THEN v.major + 1 ELSE v.major,
                  0, 0, FALSE)
           [] rel = "minor" ->
                V(v.major,
                  IF v.patch # 0 \/ ~v.pre THEN v.minor + 1 ELSE v.minor,
                  0, FALSE)
           [] rel = "patch" ->
                V(v.major, v.minor,
                  IF ~v.pre THEN v.patch + 1 ELSE v.patch,
                  FALSE)

releaseTypes == <<"major", "minor", "patch">>

-----------------------------------------------------------------------------
(* Manifests: 0 is the root package.json, 1..NumPackages the workspace     *)
(* packages in the order of the packages list.                             *)

Root == 0

packages == [i \in 1..NumPackages |-> i]

Manifests == {Root} \cup {packages[i] : i \in 1..Len(packages)}

\* the order in which updatePackagesVersion writes the manifests
WriteOrder == <<Root>> \o packages

\* updatePackageVersion(pkgRoot, version): read, set .version, write back
updatePackageVersion(m, pkgRoot, version) == [m EXCEPT ![pkgRoot] = version]

\* updatePackagesVersion(version): the root first, then every package; the
\* first manifest that cannot be written throws and leaves the rest untouched
RECURSIVE WriteFrom(_, _, _)
WriteFrom(m, i, version) ==
    IF i > Len(WriteOrder) THEN [manifest |-> m, threw |-> FALSE]
    ELSE IF WriteOrder[i] \notin writable THEN [manifest |-> m, threw |-> TRUE]
    ELSE WriteFrom(updatePackageVersion(m, WriteOrder[i], version), i + 1, version)

updatePackagesVersion(m, version) == WriteFrom(m, 1, version)

-----------------------------------------------------------------------------
(* Commands, log lines, prompts *)

Cmd(c) == [cmd |-> c, pkg |-> Root, flags |-> {}]

PublishCmd(p, fl) == [cmd |-> "pnpm publish", pkg |-> p, flags |-> fl]

Log(k, t) == [kind |-> k, text |-> t, pkg |-> Root]

PkgLog(k, t, p) == [kind |-> k, text |-> t, pkg |-> p]

\* a prompt shown to the user and the reply ("cancel": the prompt rejects)
Asked(name, answer) == [name |-> name, answer |-> answer]

Hashes == {"h1", "h2"}

RemoteShas == Hashes \cup {"undefined"}

\* no release published: the notes not taken from CHANGELOG.md, and neither
\* open(url) nor octokit.repos.createRelease called
NoRelease == [notes |-> FALSE, calls |-> {}]

NoGit == [staged |-> FALSE, committed |-> FALSE, tagged |-> FALSE,
          tagPushed |-> FALSE, pushed |-> FALSE]

\* the effect of a git command that succeeded
GitEffect(g, c) ==
    CASE c = "git add -A"     -> [g EXCEPT !.staged = TRUE]
      [] c = "git commit"     -> [g EXCEPT !.committed = TRUE]
      [] c = "git tag"        -> [g EXCEPT !.tagged = TRUE]
      [] c = "git push tag"   -> [g EXCEPT !.tagPushed = TRUE]
      [] c = "git push"       -> [g EXCEPT !.pushed = TRUE]
      [] OTHER                -> g

\* run(command): execSync; the command is handed to the shell, and throws
\* when ok is FALSE
run(st, c, ok) ==
    IF st.threw THEN st
    ELSE [st EXCEPT !.executed = Append(@, Cmd(c)),
                    !.git = IF ok THEN GitEffect(@, c) ELSE @,
                    !.threw = ~ok]

\* dryRun(command): only prints the command
dryRun(st, c) ==
    IF st.threw THEN st
    ELSE [st EXCEPT !.logged = Append(@, Log("dryrun", c))]

\* mutant: the dry-run flag is ignored
runIfNotDry_AlwaysRun(st, c, ok) == run(st, c, ok)

\* const runIfNotDry = isDryRun ? dryRun : run
runIfNotDry(st, c, ok) == IF isDryRun THEN dryRun(st, c) ELSE run(st, c, ok)

\* the part of the state a chain of commands works on
Shell == [executed |-> executed, logged |-> logged, git |-> git, threw |-> FALSE]

-----------------------------------------------------------------------------
(* main(): how a step ends *)

\* main returns: the promise resolves, nothing is left to run, exit status 0
Return(reason) ==
    /\ pc' = "exited"
    /\ outcome' = reason
    /\ exitCode' = 0
    /\ UNCHANGED thrown

\* a step throws: main's promise rejects and the catch handler runs next
Throw(stepName) ==
    /\ pc' = "catch"
    /\ outcome' = "thrown"
    /\ thrown' = stepName
    /\ UNCHANGED exitCode

Goto(next) ==
    /\ pc' = next
    /\ UNCHANGED <<outcome, thrown, exitCode>>

env == <<isDryRun, positional, currentVersion, token, writable, branch, remoteSha,
         localHead>>

-----------------------------------------------------------------------------
(* Init: the process has parsed its arguments and read the manifests *)

RelInit ==
    /\ isDryRun \in BOOLEAN
    /\ positional \in TypedVersions
    /\ currentVersion \in CurrentVersions
    /\ token \in BOOLEAN
    /\ writable \in SUBSET Manifests
    /\ branch \in {"main", "other"}
    /\ syncFault = "none"
    /\ attempts = <<>>
    /\ remoteSha \in RemoteShas
    /\ localHead \in Hashes
    /\ pc = "verifyBranch"
    /\ versionUpdated = FALSE
    /\ targetVersion = NoArg
    /\ manifest = [p \in Manifests |-> currentVersion]
    /\ hasSection = FALSE
    /\ executed = <<>>
    /\ logged = <<>>
    /\ prompts = <<>>
    /\ git = NoGit
    /\ release = NoRelease
    /\ published = {}
    /\ outcome = "running"
    /\ thrown = "none"
    /\ rolledBack = FALSE
    /\ exitCode = -1

-----------------------------------------------------------------------------
(* verify-branch: isMainBranch() *)

\* mutant: the branch check always passes
isMainBranch_Always == TRUE

\* run('git branch --show-current').trim() === 'main'
isMainBranch == branch = "main"

VerifyBranch ==
    /\ pc = "verifyBranch"
    /\ \E ok \in BOOLEAN :
         LET sh == run(Shell, "git branch --show-current", ok) IN
         /\ executed' = sh.executed
         /\ IF sh.threw
            THEN Throw("verifyBranch") /\ UNCHANGED logged
            ELSE IF ~isMainBranch
            THEN /\ logged' = Append(logged, Log("error", "Can only be published on the main branch."))
                 /\ Return("wrongBranch")
            ELSE Goto("verifyRemoteSync") /\ UNCHANGED logged
    /\ UNCHANGED <<buildVars, env, syncFault, attempts,
                   versionUpdated, targetVersion, manifest, hasSection,
                   prompts, git, release, published, rolledBack>>

(* verify-remote-sync: isInSyncWithRemote(); everything inside is under   *)
(* one try/catch that logs and answers false                              *)

\* the try block of isInSyncWithRemote for one behaviour of its
\* environment: fail names the call that throws ("none" if none), answer is
\* the user's reply to the confirm prompt
remoteCheck(fail, answer) ==
    LET s1 == run(Shell, "git remote get-url origin", fail # "repo")
        s2 == IF fail \in {"fetch", "json"} THEN [s1 EXCEPT !.threw = TRUE]
              ELSE run(s1, "git rev-parse HEAD", fail # "head")
        asked == ~s2.threw /\ remoteSha # localHead
    IN [executed |-> s2.executed,
        prompts  |-> IF asked THEN Append(prompts, Asked("continue", answer)) ELSE prompts,
        threw    |-> s2.threw \/ (asked /\ answer = "cancel"),
        value    |-> IF asked THEN answer = "yes" ELSE TRUE]

\* mutant: the catch block answers true
isInSyncWithRemote_IgnoreFailure(fail, answer) ==
    LET t == remoteCheck(fail, answer) IN
    [executed |-> t.executed, prompts |-> t.prompts, logged |-> logged,
     result |-> IF t.threw THEN TRUE ELSE t.value]

\* isInSyncWithRemote(): the value of the try block, or, if it threw, the
\* catch block's log line and false
isInSyncWithRemote(fail, answer) ==
    LET t == remoteCheck(fail, answer) IN
    [executed |-> t.executed,
     prompts  |-> t.prompts,
     logged   |-> IF t.threw
                  THEN Append(logged, Log("error", "Failed to check whether local HEAD is up-to-date with remote."))
                  ELSE logged,
     result   |-> IF t.threw THEN FALSE ELSE t.value]

VerifyRemoteSync ==
    /\ pc = "verifyRemoteSync"
    /\ \E fail \in {"none", "repo", "fetch", "json", "head"},
          answer \in {"yes", "no", "cancel"} :
         LET r == isInSyncWithRemote(fail, answer) IN
         /\ executed' = r.executed
         /\ prompts' = r.prompts
         /\ logged' = r.logged
         /\ syncFault' = fail
         /\ IF ~r.result THEN Return("notInSync") ELSE Goto("selectVersion")
    /\ UNCHANGED <<buildVars, env, attempts, versionUpdated, targetVersion,
                   manifest, hasSection,
                   git, release, published, rolledBack>>

-----------------------------------------------------------------------------
(* select-version *)

\* a choice of the select prompt: `${i} (${inc(i)})`, or the bare 'custom'
ChoiceLabel(i) == [name |-> i, paren |-> TRUE, inside |-> inc(i)]

CustomLabel == [name |-> "custom", paren |-> FALSE, inside |-> NoArg]

choices == [k \in 1..Len(releaseTypes) |-> ChoiceLabel(releaseTypes[k])] \o <<CustomLabel>>

\* type.match(/\((.*)\)/)?.[1] ?? ''
MatchParen(label) == IF label.paren THEN label.inside ELSE NoArg

\* !targetVersion: the argument is absent or the empty string
Falsy(v) == v = NoArg

\* the version main resolves, for a pick of the select prompt and a typed
\* custom version (pick 0 and typed.cancel: the prompt rejects)
ResolveVersion(pick, typed) ==
    IF ~Falsy(positional)
    THEN [asked |-> <<>>, threw |-> FALSE, version |-> positional]
    ELSE IF pick = 0
    THEN [asked |-> <<Asked("select", "cancel")>>, threw |-> TRUE, version |-> positional]
    ELSE IF choices[pick].name = "custom"
    THEN IF typed.cancel
         THEN [asked |-> <<Asked("select", "custom"), Asked("custom", "cancel")>>,
               threw |-> TRUE, version |-> positional]
         ELSE [asked |-> <<Asked("select", "custom"), Asked("custom", "typed")>>,
               threw |-> FALSE, version |-> typed.v]
    ELSE [asked |-> <<Asked("select", choices[pick].name)>>, threw |-> FALSE,
          version |-> MatchParen(choices[pick])]

SelectVersion ==
    /\ pc = "selectVersion"
    /\ \E pick \in 0..Len(choices),
          typed \in [cancel : BOOLEAN, v : TypedVersions \cup {currentVersion}] :
         LET r == ResolveVersion(pick, typed) IN
         /\ prompts' = prompts \o r.asked
         /\ targetVersion' = r.version
         /\ IF r.threw \/ ~SemverValid(r.version)
            THEN Throw("selectVersion")
            ELSE Goto("confirmVersion")
    /\ UNCHANGED <<buildVars, env, syncFault, attempts,
                   versionUpdated, manifest, hasSection, executed, logged,
                   git, release, published, rolledBack>>

(* confirm-version *)

ConfirmVersion ==
    /\ pc = "confirmVersion"
    /\ \E answer \in {"yes", "no", "cancel"} :
         /\ prompts' = Append(prompts, Asked("confirm", answer))
         /\ CASE answer = "cancel" -> Throw("confirmVersion")
              [] answer = "no"     -> Return("notConfirmed")
              [] answer = "yes"    -> Goto("rewriteVersions")
    /\ UNCHANGED <<buildVars, env, syncFault, attempts,
                   versionUpdated, targetVersion, manifest, hasSection,
                   executed, logged, git, release, published, rolledBack>>

(* rewrite-package-versions: updatePackagesVersion(targetVersion), then    *)
(* versionUpdated = true                                                  *)

\* mutant: the rollback flag is never set
RewriteVersions_NoFlag ==
    /\ pc = "rewriteVersions"
    /\ LET w == updatePackagesVersion(manifest, targetVersion) IN
         /\ manifest' = w.manifest
         /\ IF w.threw THEN Throw("rewriteVersions") ELSE Goto("generateChangelog")
    /\ UNCHANGED <<buildVars, env, syncFault, attempts, versionUpdated,
                   targetVersion, hasSection, executed, logged, prompts,
                   git, release, published, rolledBack>>

RewriteVersions ==
    /\ pc = "rewriteVersions"
    /\ LET w == updatePackagesVersion(manifest, targetVersion) IN
         /\ manifest' = w.manifest
         /\ IF w.threw
            THEN Throw("rewriteVersions") /\ UNCHANGED versionUpdated
            ELSE Goto("generateChangelog") /\ versionUpdated' = TRUE
    /\ UNCHANGED <<buildVars, env, syncFault, attempts,
                   targetVersion, hasSection, executed, logged, prompts,
                   git, release, published, rolledBack>>

(* generate-changelog: conventional-changelog rewrites CHANGELOG.md; the   *)
(* heading it writes may or may not be the one publishGitHubRelease looks  *)
(* for                                                                    *)

GenerateChangelog ==
    /\ pc = "generateChangelog"
    /\ \E ok \in BOOLEAN, section \in BOOLEAN :
         LET sh == run(Shell, "conventional-changelog", ok) IN
         /\ executed' = sh.executed
         /\ hasSection' = section
         /\ IF sh.threw THEN Throw("generateChangelog") ELSE Goto("confirmChangelog")
    /\ UNCHANGED <<buildVars, env, syncFault, attempts,
                   versionUpdated, targetVersion, manifest, logged, prompts,
                   git, release, published, rolledBack>>

(* confirm-changelog *)

\* mutant: a rejected changelog does not stop the workflow
ConfirmChangelog_Proceeds ==
    /\ pc = "confirmChangelog"
    /\ \E answer \in {"yes", "no", "cancel"} :
         /\ prompts' = Append(prompts, Asked("changelog", answer))
         /\ CASE answer = "cancel" -> Throw("confirmChangelog")
              [] answer = "no"     -> Goto("updateLockfile")
              [] answer = "yes"    -> Goto("updateLockfile")
    /\ UNCHANGED <<buildVars, env, syncFault, attempts,
                   versionUpdated, targetVersion, manifest, hasSection,
                   executed, logged, git, release, published, rolledBack>>

ConfirmChangelog ==
    /\ pc = "confirmChangelog"
    /\ \E answer \in {"yes", "no", "cancel"} :
         /\ prompts' = Append(prompts, Asked("changelog", answer))
         /\ CASE answer = "cancel" -> Throw("confirmChangelog")
              [] answer = "no"     -> Return("changelogRejected")
              [] answer = "yes"    -> Goto("updateLockfile")
    /\ UNCHANGED <<buildVars, env, syncFault, attempts,
                   versionUpdated, targetVersion, manifest, hasSection,
                   executed, logged, git, release, published, rolledBack>>

(* update-lockfile *)

UpdateLockfile ==
    /\ pc = "updateLockfile"
    /\ \E ok \in BOOLEAN :
         LET sh == run(Shell, "pnpm install", ok) IN
         /\ executed' = sh.executed
         /\ IF sh.threw THEN Throw("updateLockfile") ELSE Goto("commitIfDirty")
    /\ UNCHANGED <<buildVars, env, syncFault, attempts,
                   versionUpdated, targetVersion, manifest, hasSection,
                   logged, prompts, git, release, published, rolledBack>>

(* commit-if-dirty: isWorkspaceClean(), then git add and git commit        *)
(* through runIfNotDry.  Of a chain of commands, the first n succeed and   *)
(* the next one, if any, throws.                                          *)

RECURSIVE Chain(_, _, _, _)
Chain(st, cmds, i, n) ==
    IF i > Len(cmds) THEN st
    ELSE Chain(runIfNotDry(st, cmds[i], i <= n), cmds, i + 1, n)

CommitIfDirty ==
    /\ pc = "commitIfDirty"
    /\ \E diff \in {"clean", "dirty", "throws"}, n \in 0..2 :
         LET s1 == run(Shell, "git diff", diff # "throws")
             s2 == IF diff = "dirty"
                   THEN Chain(s1, <<"git add -A", "git commit">>, 1, n)
                   ELSE s1
         IN
         /\ executed' = s2.executed
         /\ logged' = s2.logged
         /\ git' = s2.git
         /\ IF s2.threw THEN Throw("commitIfDirty") ELSE Goto("tagAndPush")
    /\ UNCHANGED <<buildVars, env, syncFault, attempts,
                   versionUpdated, targetVersion, manifest, hasSection,
                   prompts, release, published, rolledBack>>

(* tag-and-push *)

\* mutant: the release publication is skipped
TagAndPush_SkipRelease ==
    /\ pc = "tagAndPush"
    /\ \E n \in 0..3 :
         LET sh == Chain(Shell, <<"git tag", "git push tag", "git push">>, 1, n) IN
         /\ executed' = sh.executed
         /\ logged' = sh.logged
         /\ git' = sh.git
         /\ IF sh.threw THEN Throw("tagAndPush") ELSE Goto("buildAll")
    /\ UNCHANGED <<buildVars, env, syncFault, attempts,
                   versionUpdated, targetVersion, manifest, hasSection,
                   prompts, release, published, rolledBack>>

TagAndPush ==
    /\ pc = "tagAndPush"
    /\ \E n \in 0..3 :
         LET sh == Chain(Shell, <<"git tag", "git push tag", "git push">>, 1, n) IN
         /\ executed' = sh.executed
         /\ logged' = sh.logged
         /\ git' = sh.git
         /\ IF sh.threw THEN Throw("tagAndPush") ELSE Goto("publishRelease")
    /\ UNCHANGED <<buildVars, env, syncFault, attempts,
                   versionUpdated, targetVersion, manifest, hasSection,
                   prompts, release, published, rolledBack>>

(* publish-remote-release: publishGitHubRelease(version) *)

\* what a call of publishGitHubRelease leaves behind
ReleaseWith(st, notes, calls, threw) ==
    [executed |-> st.executed, logged |-> st.logged,
     release |-> [notes |-> notes, calls |-> calls], threw |-> threw]

\* mutant: the branch without a token does not return after open(url)
publishGitHubRelease_NoReturn(fail) ==
    LET s1 == run(Shell, "git remote get-url origin", fail # "repo")
        threwEarly == s1.threw \/ fail = "read" \/ ~hasSection
    IN  IF threwEarly
        THEN ReleaseWith(s1, FALSE, {}, TRUE)
        ELSE IF isDryRun
        THEN ReleaseWith([s1 EXCEPT !.logged =
                             Append(logged, Log("step", "Dry run - skipping github release..."))],
                         TRUE, {}, FALSE)
        ELSE ReleaseWith(s1, TRUE, (IF ~token THEN {"browser"} ELSE {}) \cup {"api"},
                         fail = "remote")

\* fail names the call that throws ("none" if none): getRepoInfo, reading
\* CHANGELOG.md, or the open()/createRelease call.  The notes are taken by
\* destructuring the regular expression's match, which throws when
\* CHANGELOG.md has no section for the version.
publishGitHubRelease(fail) ==
    LET s1 == run(Shell, "git remote get-url origin", fail # "repo")
        threwEarly == s1.threw \/ fail = "read" \/ ~hasSection
    IN  IF threwEarly
        THEN ReleaseWith(s1, FALSE, {}, TRUE)
        ELSE IF isDryRun
        THEN ReleaseWith([s1 EXCEPT !.logged =
                             Append(logged, Log("step", "Dry run - skipping github release..."))],
                         TRUE, {}, FALSE)
        ELSE IF ~token
        THEN ReleaseWith(s1, TRUE, {"browser"}, fail = "remote")
        ELSE ReleaseWith(s1, TRUE, {"api"}, fail = "remote")

PublishRelease ==
    /\ pc = "publishRelease"
    /\ \E fail \in {"none", "repo", "read", "remote"} :
         LET r == publishGitHubRelease(fail) IN
         /\ executed' = r.executed
         /\ logged' = r.logged
         /\ release' = r.release
         /\ IF r.threw THEN Throw("publishRelease") ELSE Goto("buildAll")
    /\ UNCHANGED <<buildVars, env, syncFault, attempts,
                   versionUpdated, targetVersion, manifest, hasSection,
                   prompts, git, published, rolledBack>>

(* build-all-packages *)

BuildAll ==
    /\ pc = "buildAll"
    /\ \E ok \in BOOLEAN :
         LET sh == run(Shell, "pnpm build", ok) IN
         /\ executed' = sh.executed
         /\ IF sh.threw THEN Throw("buildAll") ELSE Goto("publishAll")
    /\ UNCHANGED <<buildVars, env, syncFault, attempts,
                   versionUpdated, targetVersion, manifest, hasSection,
                   logged, prompts, git, release, published, rolledBack>>

(* publish-all-packages: publishPackages(version) / publishPackage         *)

PublishResults == {"ok", "previously published", "other error"}

\* mutant: no error message is recognised as already published
MatchesPreviouslyPublished_Never(message) == FALSE

\* e.message?.match(/previously published/)
MatchesPreviouslyPublished(message) == message = "previously published"

\* publishPackage(pkgName, version, flags); res is what pnpm publish does
publishPackage(st, pkgName, flags, res) ==
    LET ran == [st EXCEPT !.executed = Append(@, PublishCmd(pkgName, flags)),
                          !.attempts = Append(@, [pkg |-> pkgName, result |-> res])] IN
    IF res = "ok"
    THEN [ran EXCEPT !.logged = Append(@, PkgLog("published", "Successfully published", pkgName)),
                     !.published = IF "--dry-run" \in flags THEN @ ELSE @ \cup {pkgName}]
    ELSE IF MatchesPreviouslyPublished(res)
    THEN [ran EXCEPT !.logged = Append(@, PkgLog("skip", "Skipping already published", pkgName))]
    ELSE [ran EXCEPT !.threw = TRUE]

\* mutant: the dry-run flags are never pushed
PublishFlags_Never == {}

\* if (isDryRun) flags.push('--dry-run', '--no-git-checks')
PublishFlags == IF isDryRun THEN {"--dry-run", "--no-git-checks"} ELSE {}

\* for (const pkg of packages) publishPackage(pkg, version, flags)
RECURSIVE PublishFrom(_, _, _)
PublishFrom(st, i, results) ==
    IF i > Len(packages) \/ st.threw THEN st
    ELSE PublishFrom(publishPackage(st, packages[i], PublishFlags, results[i]), i + 1, results)

publishPackages(results) ==
    PublishFrom([executed |-> executed, logged |-> logged, published |-> published,
                 attempts |-> attempts, threw |-> FALSE], 1, results)

PublishAll ==
    /\ pc = "publishAll"
    /\ \E results \in [1..Len(packages) -> PublishResults] :
         LET r == publishPackages(results) IN
         /\ executed' = r.executed
         /\ published' = r.published
         /\ attempts' = r.attempts
         /\ IF r.threw
            THEN Throw("publishAll") /\ logged' = r.logged
            ELSE /\ Return("done")
                 /\ logged' = IF isDryRun
                              THEN Append(r.logged, Log("info", "Dry run finished"))
                              ELSE r.logged
    /\ UNCHANGED <<buildVars, env, syncFault, versionUpdated, targetVersion, manifest,
                   hasSection, prompts, git, release, rolledBack>>

-----------------------------------------------------------------------------
(* main().catch: roll the manifests back if the flag is set, exit 1.  A    *)
(* throw of the rollback itself leaves the handler's promise rejected,     *)
(* which also ends the process with status 1.                              *)

\* mutant: the handler also deletes the tag and resets the branch
Catch_UndoTag ==
    /\ pc = "catch"
    /\ IF versionUpdated
       THEN /\ manifest' = updatePackagesVersion(manifest, currentVersion).manifest
            /\ rolledBack' = TRUE
            /\ git' = NoGit
       ELSE UNCHANGED <<manifest, rolledBack, git>>
    /\ pc' = "exited"
    /\ exitCode' = 1
    /\ UNCHANGED <<buildVars, env, syncFault, attempts, versionUpdated,
                   targetVersion, hasSection, executed, logged, prompts,
                   release, published, outcome, thrown>>

\* mutant: the handler logs the error and does not call process.exit(1)
Catch_ExitZero ==
    /\ pc = "catch"
    /\ IF versionUpdated
       THEN /\ manifest' = updatePackagesVersion(manifest, currentVersion).manifest
            /\ rolledBack' = TRUE
       ELSE UNCHANGED <<manifest, rolledBack>>
    /\ pc' = "exited"
    /\ exitCode' = 0
    /\ UNCHANGED <<buildVars, env, syncFault, attempts, versionUpdated,
                   targetVersion, hasSection, executed, logged, prompts, git,
                   release, published, outcome, thrown>>

Catch ==
    /\ pc = "catch"
    /\ IF versionUpdated
       THEN /\ manifest' = updatePackagesVersion(manifest, currentVersion).manifest
            /\ rolledBack' = TRUE
       ELSE UNCHANGED <<manifest, rolledBack>>
    /\ pc' = "exited"
    /\ exitCode' = 1
    /\ UNCHANGED <<buildVars, env, syncFault, attempts,
                   versionUpdated, targetVersion, hasSection, executed, logged,
                   prompts, git, release, published, outcome, thrown>>

-----------------------------------------------------------------------------
(* The build script.                                                      *)
(* File stems are sequences of characters; camelcase(stem, {pascalCase})   *)
(* drops the separators and capitalises the first letter of every word.    *)

Separators == {"-", "_"}

Upper(c) == CASE c = "a" -> "A" [] c = "b" -> "B" [] c = "c" -> "C" [] OTHER -> c

RECURSIVE PascalFrom(_, _, _, _)
PascalFrom(stem, i, capital, acc) ==
    IF i > Len(stem) THEN acc
    ELSE IF stem[i] \in Separators THEN PascalFrom(stem, i + 1, TRUE, acc)
    ELSE PascalFrom(stem, i + 1, FALSE,
                    Append(acc, IF capital THEN Upper(stem[i]) ELSE stem[i]))

\* camelcase(file.replace(/\.svg$/, ''), { pascalCase: true })
PascalCase(stem) == PascalFrom(stem, 1, TRUE, <<>>)

\* the stems an assets directory may hold
Stems == { <<"a", "-", "b">>, <<"a", "_", "b">>, <<"c">> }

Formats == {"esm", "cjs"}

Kinds == {"js", "dts"}

\* a directory listing: NumIcons distinct files
Listings ==
    { l \in [1..NumIcons -> Stems] : \A i, j \in 1..NumIcons : i # j => l[i] # l[j] }

IconIds == 1..Len(assets)

componentName(i) == PascalCase(assets[i])

IndexName == <<"index">>

\* `${output}/${componentName}.js`, `${output}/${componentName}.d.ts`
Path(f, name, kind) == [format |-> f, name |-> name, kind |-> kind]

Paths ==
    { Path(f, n, k) : f \in Formats,
                      n \in {PascalCase(st) : st \in Stems} \cup {IndexName},
                      k \in Kinds }

Absent == [what |-> "absent", of |-> 0, name |-> <<>>]

\* the component source of icon i: transforms[target]({ svg, componentName,
\* format }), made from the svg of the asset
ComponentText(i) == [what |-> "component", of |-> i, name |-> componentName(i)]

\* the declaration of icon i: types.join('\n'), made from componentName only
DeclarationText(i) == [what |-> "declaration", of |-> 0, name |-> componentName(i)]

\* the text ensureWrite is given for the file of kind k of icon i
WrittenText(i, k) == IF k = "js" THEN ComponentText(i) ELSE DeclarationText(i)

IndexText == [what |-> "index", of |-> 0, name |-> IndexName]

-----------------------------------------------------------------------------
(* main() of the build script has logged "Building ..." and called both    *)
(* build(target, 'esm') and build(target, 'cjs'); each runs up to its      *)
(* await getIcons().                                                      *)

BuildBegin ==
    /\ assets \in Listings
    /\ bpc = [f \in Formats |-> "getIcons"]
    /\ cb = [x \in Formats \X (1..NumIcons) |-> "idle"]
    /\ wr = [x \in Formats \X (1..NumIcons) \X Kinds |-> "idle"]
    /\ disk = [p \in Paths |-> Absent]
    /\ mainPc = "awaiting"
    /\ console = <<"Building">>

\* the build script is not part of a release run
BuildIdle ==
    /\ assets = <<>>
    /\ bpc = [f \in Formats |-> "idle"]
    /\ cb = <<>>
    /\ wr = <<>>
    /\ disk = <<>>
    /\ mainPc = "idle"
    /\ console = <<>>
    /\ faultsLeft = 0

\* the release script is not part of a build run
RelIdle ==
    /\ isDryRun = FALSE
    /\ positional = NoArg
    /\ currentVersion = NoArg
    /\ token = FALSE
    /\ writable = {}
    /\ branch = "main"
    /\ syncFault = "none"
    /\ attempts = <<>>
    /\ remoteSha = "undefined"
    /\ localHead = "undefined"
    /\ pc = "idle"
    /\ versionUpdated = FALSE
    /\ targetVersion = NoArg
    /\ manifest = <<>>
    /\ hasSection = FALSE
    /\ executed = <<>>
    /\ logged = <<>>
    /\ prompts = <<>>
    /\ git = NoGit
    /\ release = NoRelease
    /\ published = {}
    /\ outcome = "idle"
    /\ thrown = "none"
    /\ rolledBack = FALSE
    /\ exitCode = -1

\* main's await Promise.all([build(esm), build(cjs)]) when build f settles
\* with the given state: the first rejection is caught and logged; the
\* second fulfilment lets main log "Finished building"
Settle(f, state) ==
    /\ bpc' = [bpc EXCEPT ![f] = state]
    /\ IF mainPc = "awaiting" /\ state = "rejected"
       THEN mainPc' = "caught" /\ console' = Append(console, "error")
       ELSE IF mainPc = "awaiting" /\ state = "resolved"
               /\ \A g \in Formats \ {f} : bpc[g] = "resolved"
       THEN mainPc' = "finished" /\ console' = Append(console, "Finished building")
       ELSE UNCHANGED <<mainPc, console>>

\* an operation of the environment (a read, a transform, a write) succeeds,
\* or fails while the run's budget of failures lasts
Fault(ok) ==
    /\ ok \/ faultsLeft > 0
    /\ faultsLeft' = IF ok THEN faultsLeft ELSE faultsLeft - 1

\* const icons = await getIcons(); then the flatMap callbacks start, each
\* running up to its await of the transform
GetIcons(f) ==
    /\ bpc[f] = "getIcons"
    /\ \E ok \in BOOLEAN :
         /\ Fault(ok)
         /\ IF ok
            THEN /\ bpc' = [bpc EXCEPT ![f] = "transforming"]
                 /\ cb' = [x \in DOMAIN cb |-> IF x[1] = f THEN "transform" ELSE cb[x]]
                 /\ UNCHANGED <<mainPc, console>>
            ELSE Settle(f, "rejected") /\ UNCHANGED cb
    /\ UNCHANGED <<relVars, assets, wr, disk>>

\* the callback of icon i resumes after the transform: it calls ensureWrite
\* twice and returns the array of the two promises, which fulfils the
\* callback's promise.  Promise.all over the callbacks' promises fulfils
\* with the last of them and rejects with the first failed transform.
Transform(f, i) ==
    /\ cb[<<f, i>>] = "transform"
    /\ \E ok \in BOOLEAN :
         /\ Fault(ok)
         /\ IF ok
            THEN /\ cb' = [cb EXCEPT ![<<f, i>>] = "returned"]
                 /\ wr' = [x \in DOMAIN wr |->
                             IF x[1] = f /\ x[2] = i THEN "pending" ELSE wr[x]]
                 /\ IF bpc[f] = "transforming"
                       /\ \A j \in IconIds \ {i} : cb[<<f, j>>] = "returned"
                    THEN bpc' = [bpc EXCEPT ![f] = "indexJs"]
                    ELSE UNCHANGED bpc
                 /\ UNCHANGED <<mainPc, console>>
            ELSE /\ cb' = [cb EXCEPT ![<<f, i>>] = "failed"]
                 /\ UNCHANGED wr
                 /\ IF bpc[f] = "transforming"
                    THEN Settle(f, "rejected")
                    ELSE UNCHANGED <<bpc, mainPc, console>>
    /\ UNCHANGED <<relVars, assets, disk>>

\* ensureWrite(file, text) of a component or declaration file completes
Write(f, i, k) ==
    /\ wr[<<f, i, k>>] = "pending"
    /\ \E ok \in BOOLEAN :
         /\ Fault(ok)
         /\ IF ok
            THEN /\ wr' = [wr EXCEPT ![<<f, i, k>>] = "done"]
                 /\ disk' = [disk EXCEPT ![Path(f, componentName(i), k)] = WrittenText(i, k)]
            ELSE /\ wr' = [wr EXCEPT ![<<f, i, k>>] = "failed"]
                 /\ UNCHANGED disk
    /\ UNCHANGED <<relVars, assets, bpc, cb, mainPc, console>>

\* await ensureWrite(`${output}/index.js`, ...)
IndexJs(f) ==
    /\ bpc[f] = "indexJs"
    /\ \E ok \in BOOLEAN :
         /\ Fault(ok)
         /\ IF ok
            THEN /\ disk' = [disk EXCEPT ![Path(f, IndexName, "js")] = IndexText]
                 /\ bpc' = [bpc EXCEPT ![f] = "indexDts"]
                 /\ UNCHANGED <<mainPc, console>>
            ELSE Settle(f, "rejected") /\ UNCHANGED disk
    /\ UNCHANGED <<relVars, assets, cb, wr>>

\* await ensureWrite(`${output}/index.d.ts`, ...); build() then returns
IndexDts(f) ==
    /\ bpc[f] = "indexDts"
    /\ \E ok \in BOOLEAN :
         /\ Fault(ok)
         /\ IF ok
            THEN /\ disk' = [disk EXCEPT ![Path(f, IndexName, "dts")] = IndexText]
                 /\ Settle(f, "resolved")
            ELSE Settle(f, "rejected") /\ UNCHANGED disk
    /\ UNCHANGED <<relVars, assets, cb, wr>>

-----------------------------------------------------------------------------

Init == RelInit /\ BuildIdle

Next ==
    \/ VerifyBranch
    \/ VerifyRemoteSync
    \/ SelectVersion
    \/ ConfirmVersion
    \/ RewriteVersions
    \/ GenerateChangelog
    \/ ConfirmChangelog
    \/ UpdateLockfile
    \/ CommitIfDirty
    \/ TagAndPush
    \/ PublishRelease
    \/ BuildAll
    \/ PublishAll
    \/ Catch

Spec == Init /\ [][Next]_vars

BuildNext ==
    \/ \E f \in Formats : GetIcons(f)
    \/ \E f \in Formats, i \in IconIds : Transform(f, i)
    \/ \E f \in Formats, i \in IconIds, k \in Kinds : Write(f, i, k)
    \/ \E f \in Formats : IndexJs(f)
    \/ \E f \in Formats : IndexDts(f)

\* a build run in which every read, transform and write succeeds
BuildInit == BuildBegin /\ RelIdle /\ faultsLeft = 0

BuildSpec == BuildInit /\ [][BuildNext]_vars

\* a build run in which up to MaxFaults operations fail
BuildFaultInit == BuildBegin /\ RelIdle /\ faultsLeft = MaxFaults

BuildFaultSpec == BuildFaultInit /\ [][BuildNext]_vars

-----------------------------------------------------------------------------
(* Properties of the release workflow *)

AllManifestsAt(v) == \A p \in Manifests : manifest[p] = v

\* the commands handed to execSync so far
Cmds == {executed[i].cmd : i \in 1..Len(executed)}

\* the commands printed by dryRun so far
DryLogged == {logged[i].text : i \in {j \in 1..Len(logged) : logged[j].kind = "dryrun"}}

\* the read-only queries of verify-branch and verify-remote-sync
QueryCmds == {"git branch --show-current", "git remote get-url origin", "git rev-parse HEAD"}

GitWriteCmds == {"git add -A", "git commit", "git tag", "git push tag", "git push"}

StepsAfterRewrite ==
    {"generateChangelog", "confirmChangelog", "updateLockfile", "commitIfDirty",
     "tagAndPush", "publishRelease", "buildAll", "publishAll"}

ReturnReasons == {"wrongBranch", "notInSync", "notConfirmed", "changelogRejected", "done"}

\* verify-remote-sync let the run through: select-version has been reached
PastSync ==
    /\ pc \notin {"verifyBranch", "verifyRemoteSync"}
    /\ outcome \notin {"wrongBranch", "notInSync"}
    /\ thrown # "verifyBranch"

\* select-version has run
SelectRan == PastSync /\ pc # "selectVersion"

\* tag-and-push has completed
PastTagAndPush ==
    \/ pc \in {"publishRelease", "buildAll", "publishAll"}
    \/ thrown \in {"publishRelease", "buildAll", "publishAll"}
    \/ outcome = "done"

NothingWritten ==
    /\ AllManifestsAt(currentVersion)
    /\ ~versionUpdated
    /\ ~rolledBack
    /\ Cmds \subseteq QueryCmds
    /\ git = NoGit
    /\ published = {}
    /\ release = NoRelease

\* C1: when generate-changelog or a later step throws, the manifests were
\* all at the target version, the handler puts every manifest (the root and
\* every workspace package) back to currentVersion, and the process exits
\* with status 1.
C1_RollbackRestoresVersions ==
    thrown \in StepsAfterRewrite =>
        /\ versionUpdated
        /\ pc = "catch" => AllManifestsAt(targetVersion)
        /\ pc = "exited" => /\ AllManifestsAt(currentVersion)
                            /\ rolledBack
                            /\ exitCode = 1

C1_Witness ==
    /\ pc = "exited"
    /\ thrown = "publishAll"
    /\ targetVersion # currentVersion
    /\ rolledBack
    /\ AllManifestsAt(currentVersion)
    /\ exitCode = 1

\* C2: when the version select-version resolved is not a valid semantic
\* version, the step throws and nothing has been or will be written: every
\* manifest keeps the pre-release version, no changelog, git-write or
\* publish command runs (only the read-only queries of the two verify steps
\* have run), and the process exits with status 1.
C2_InvalidVersionRejected ==
    (SelectRan /\ ~targetVersion.valid) =>
        /\ thrown = "selectVersion"
        /\ pc \in {"catch", "exited"}
        /\ NothingWritten
        /\ pc = "exited" => exitCode = 1

C2_Witness ==
    /\ pc = "exited"
    /\ positional = NoArg
    /\ targetVersion = NotAVersion
    /\ thrown = "selectVersion"
    /\ AllManifestsAt(currentVersion)

\* C3: in dry-run mode no git add, commit, tag or push is ever executed and
\* no GitHub release is created or opened; once tag-and-push is over, the
\* tag and push commands have been printed with the [dryrun] prefix.
C3_DryRunNoGitWrites ==
    isDryRun =>
        /\ Cmds \cap GitWriteCmds = {}
        /\ git = NoGit
        /\ release.calls = {}
        /\ PastTagAndPush => {"git tag", "git push tag", "git push"} \subseteq DryLogged
        /\ "git commit" \in DryLogged => "git add -A" \in DryLogged

C3_Witness ==
    /\ isDryRun
    /\ outcome = "done"
    /\ GitWriteCmds \subseteq DryLogged

\* C4 as claimed: in dry-run mode the publish command is not run for any
\* package.
C4_DryRunNoPublishCommand == isDryRun => "pnpm publish" \notin Cmds

\* C4 as amended: in dry-run mode the publish command is still run for the
\* packages, always with the --dry-run and --no-git-checks flags, so that
\* no package is uploaded; a dry run that reaches done has run it for every
\* package.
C4_DryRunPublishesWithDryRunFlag ==
    isDryRun =>
        /\ published = {}
        /\ \A i \in 1..Len(executed) :
              executed[i].cmd = "pnpm publish" =>
                  executed[i].flags = {"--dry-run", "--no-git-checks"}
        /\ outcome = "done" =>
              \A p \in Manifests \ {Root} :
                  \E i \in 1..Len(executed) :
                      executed[i].cmd = "pnpm publish" /\ executed[i].pkg = p

C4_Witness ==
    /\ isDryRun
    /\ outcome = "done"
    /\ \A i \in 1..Len(attempts) : attempts[i].result = "ok"
    /\ Len(attempts) = Len(packages)
    /\ published = {}

\* C5: the publish loop tries the packages in list order; a failure that
\* matches 'previously published' is logged as a skip and the next package
\* is still tried; any other failure is the last attempt and rejects main
\* (the handler runs, exit status 1); without such a failure every package
\* is tried and main returns.
C5_PublishLoop ==
    /\ Len(attempts) <= Len(packages)
    /\ \A i \in 1..Len(attempts) :
          /\ attempts[i].pkg = packages[i]
          /\ attempts[i].result = "previously published" =>
                /\ \E j \in 1..Len(logged) : logged[j] = PkgLog("skip", "Skipping already published", packages[i])
                /\ (i < Len(packages) => Len(attempts) > i)
          /\ attempts[i].result = "ok" =>
                (i < Len(packages) => Len(attempts) > i)
          /\ attempts[i].result = "other error" =>
                /\ i = Len(attempts)
                /\ thrown = "publishAll"
                /\ pc \in {"catch", "exited"}
                /\ pc = "exited" => exitCode = 1
    /\ (attempts # <<>> /\ \A i \in 1..Len(attempts) : attempts[i].result # "other error") =>
          /\ Len(attempts) = Len(packages)
          /\ outcome = "done"

C5_Witness ==
    /\ Len(attempts) = 2
    /\ attempts[1].result = "previously published"
    /\ attempts[2].result = "other error"
    /\ pc = "exited"

\* C6: in a non-dry run whose CHANGELOG.md has no section for the target
\* version, the failure of publish-remote-release comes before any commit,
\* tag or push has been executed.
C6_MissingSectionFailsBeforeGitWrites ==
    (~isDryRun /\ ~hasSection /\ thrown = "publishRelease") =>
        /\ Cmds \cap GitWriteCmds = {}
        /\ git = NoGit

\* C7: the process exits with status 1 exactly when a step of main threw,
\* and then the handler has run (it rolled back iff the flag was set); a run
\* that ends by a return (wrong branch, not in sync, version not confirmed,
\* changelog rejected, done) exits with status 0 without a rollback.
C7_ExitStatus ==
    /\ pc # "exited" => exitCode = -1
    /\ pc = "exited" =>
          /\ exitCode \in {0, 1}
          /\ exitCode = 1 <=> outcome = "thrown"
          /\ outcome = "thrown" => thrown # "none" /\ (rolledBack <=> versionUpdated)
          /\ outcome # "thrown" =>
                outcome \in ReturnReasons /\ thrown = "none" /\ exitCode = 0 /\ ~rolledBack

C7_Witness ==
    /\ pc = "exited"
    /\ outcome = "changelogRejected"
    /\ versionUpdated
    /\ ~rolledBack
    /\ exitCode = 0

\* C8: when the branch checked out is not main, the run never gets past
\* verify-branch: the only command run is the branch query, no prompt is
\* shown, nothing is written, and the run ends by the logged error.
C8_WrongBranchStops ==
    branch # "main" =>
        /\ pc \in {"verifyBranch", "catch", "exited"}
        /\ outcome \in {"running", "wrongBranch", "thrown"}
        /\ thrown \in {"none", "verifyBranch"}
        /\ prompts = <<>>
        /\ Cmds \subseteq {"git branch --show-current"}
        /\ AllManifestsAt(currentVersion)
        /\ ~versionUpdated
        /\ git = NoGit /\ published = {} /\ release = NoRelease
        /\ outcome = "wrongBranch" =>
              /\ pc = "exited"
              /\ exitCode = 0
              /\ logged = <<Log("error", "Can only be published on the main branch.")>>

C8_Witness ==
    /\ branch = "other"
    /\ pc = "exited"
    /\ outcome = "wrongBranch"

\* C9: select-version is reached only if the remote check did not throw and
\* either the remote hash equals local HEAD or the user answered yes to the
\* continue prompt; a remote check that throws ends the run with no prompt
\* shown and nothing written; differing hashes with the prompt declined end
\* the run likewise.
C9_RemoteSyncGate ==
    /\ PastSync =>
          /\ syncFault = "none"
          /\ \/ remoteSha = localHead /\ (prompts = <<>> \/ prompts[1].name # "continue")
             \/ remoteSha # localHead /\ prompts # <<>> /\ prompts[1] = Asked("continue", "yes")
    /\ syncFault # "none" =>
          /\ pc = "exited" /\ outcome = "notInSync" /\ exitCode = 0
          /\ prompts = <<>>
          /\ NothingWritten
    /\ (prompts # <<>> /\ prompts[1] = Asked("continue", "no")) =>
          /\ pc = "exited" /\ outcome = "notInSync" /\ exitCode = 0
          /\ Len(prompts) = 1
          /\ remoteSha # localHead
          /\ NothingWritten

C9_Witness ==
    /\ pc = "selectVersion"
    /\ remoteSha # localHead
    /\ prompts = <<Asked("continue", "yes")>>

\* the answers given to the prompt of that name
Answers(name) ==
    {prompts[i].answer : i \in {j \in 1..Len(prompts) : prompts[j].name = name}}

\* the semantic-version increment of a release type: the fields below the
\* bumped one are reset to 0; a prerelease of x.0.0 (x.y.0, x.y.z) is
\* completed to that version by a major (minor, patch) increment
SemverIncrement(v, rel) ==
    CASE rel = "major" ->
           IF v.pre /\ v.minor = 0 /\ v.patch = 0
           THEN V(v.major, 0, 0, FALSE) ELSE V(v.major + 1, 0, 0, FALSE)
      [] rel = "minor" ->
           IF v.pre /\ v.patch = 0
           THEN V(v.major, v.minor, 0, FALSE) ELSE V(v.major, v.minor + 1, 0, FALSE)
      [] rel = "patch" ->
           IF v.pre
           THEN V(v.major, v.minor, v.patch, FALSE) ELSE V(v.major, v.minor, v.patch + 1, FALSE)

BumpTypes == {releaseTypes[k] : k \in 1..Len(releaseTypes)}

\* C12: once select-version has run, a supplied version argument is the
\* target as it stands and no select or custom prompt was shown; without an
\* argument the select prompt was shown once, and a selected bump type makes
\* the target exactly the semantic-version increment of that type of the
\* current version (1.2.3 and minor give 1.3.0).
C12_ResolvedTargetVersion ==
    SelectRan =>
        /\ positional # NoArg =>
              /\ targetVersion = positional
              /\ Answers("select") = {} /\ Answers("custom") = {}
        /\ positional = NoArg =>
              /\ Cardinality({j \in 1..Len(prompts) : prompts[j].name = "select"}) = 1
              /\ \A t \in Answers("select") \cap BumpTypes :
                    /\ targetVersion = SemverIncrement(currentVersion, t)
                    /\ thrown # "selectVersion"
                    /\ Answers("custom") = {}
              /\ (currentVersion = V(1, 2, 3, FALSE) /\ "minor" \in Answers("select")) =>
                    targetVersion = V(1, 3, 0, FALSE)

C12_Witness ==
    /\ pc = "confirmVersion"
    /\ positional = NoArg
    /\ currentVersion = V(1, 2, 3, FALSE)
    /\ Answers("select") = {"minor"}
    /\ targetVersion = V(1, 3, 0, FALSE)

\* the steps of the release workflow, in the order of main()
StepSeq ==
    <<"verifyBranch", "verifyRemoteSync", "selectVersion", "confirmVersion",
      "rewriteVersions", "generateChangelog", "confirmChangelog", "updateLockfile",
      "commitIfDirty", "tagAndPush", "publishRelease", "buildAll", "publishAll">>

StepIndex(st) == CHOOSE k \in 1..Len(StepSeq) : StepSeq[k] = st

\* where main can be after the step it is at: the next step, or out (a
\* return, or a throw into the handler)
AfterStep(st) ==
    {"catch", "exited"} \cup
    (IF StepIndex(st) < Len(StepSeq) THEN {StepSeq[StepIndex(st) + 1]} ELSE {})

\* every command a comes before every command b in the order of execution
RanBefore(a, b) ==
    \A i, j \in 1..Len(executed) :
        (executed[i].cmd = a /\ executed[j].cmd = b) => i < j

\* a package has been handed to pnpm publish only after tag-and-push,
\* publish-remote-release and build-all-packages completed
PublishComesLast ==
    attempts # <<>> =>
        /\ "pnpm build" \in Cmds
        /\ RanBefore("pnpm build", "pnpm publish")
        /\ RanBefore("git remote get-url origin", "pnpm build")
        /\ IF isDryRun
           THEN {"git tag", "git push tag", "git push"} \subseteq DryLogged
           ELSE /\ git.tagged /\ git.tagPushed /\ git.pushed
                /\ release.calls # {}
                /\ RanBefore("git tag", "git push tag")
                /\ RanBefore("git push tag", "git push")
                /\ RanBefore("git push", "pnpm build")

\* C13: main moves from each step only to the step that follows it in the
\* workflow order (or leaves by a return or a throw), so every step runs at
\* most once and after the previous one completed; the handler runs last;
\* and packages are published only after the tag push, the release
\* publication and the build.
C13_StepsInOrder ==
    [][ /\ pc \notin {"catch", "exited"} => pc' \in AfterStep(pc)
        /\ pc = "catch" => pc' = "exited"
        /\ pc # "exited"
        /\ PublishComesLast' ]_vars

C13_Witness ==
    /\ outcome = "done"
    /\ ~isDryRun
    /\ Len(attempts) = Len(packages)
    /\ git.pushed
    /\ release.calls # {}
    /\ "git commit" \in Cmds

\* the changelog confirmation was answered "no"
ChangelogRejected ==
    \E n \in 1..Len(prompts) : prompts[n] = Asked("changelog", "no")

\* the commands of the steps that follow confirm-changelog
CmdsAfterChangelog ==
    {"pnpm install", "git diff", "git add -A", "git commit", "git tag",
     "git push tag", "git push", "pnpm build", "pnpm publish"}

\* C14: once the changelog confirmation is rejected the workflow has
\* stopped: none of update-lockfile, commit, tag, push, release, build or
\* publish runs (for real or as a dry-run log), the handler does not roll
\* back, the exit is a plain return, and every manifest holds the target
\* version.
C14_ChangelogRejectedStops ==
    ChangelogRejected =>
        /\ pc = "exited"
        /\ outcome = "changelogRejected"
        /\ exitCode = 0
        /\ ~rolledBack
        /\ versionUpdated
        /\ AllManifestsAt(targetVersion)
        /\ Cmds \cap CmdsAfterChangelog = {}
        /\ DryLogged \cap CmdsAfterChangelog = {}
        /\ git = NoGit
        /\ release = NoRelease
        /\ published = {}
        /\ attempts = <<>>

C14_Witness ==
    /\ ChangelogRejected
    /\ pc = "exited"
    /\ targetVersion # currentVersion
    /\ "conventional-changelog" \in Cmds \cup DryLogged

\* C17: in a non-dry run whose publish-remote-release step has taken the
\* notes of the target version from the changelog, exactly one call was
\* made: createRelease when a token is set, open(url) when none is; in
\* every other run neither call is made.
C17_ExactlyOneReleaseAction ==
    /\ (~isDryRun /\ release.notes) =>
           release.calls = {IF token THEN "api" ELSE "browser"}
    /\ (isDryRun \/ ~release.notes) => release.calls = {}

C17_Witness ==
    /\ ~isDryRun
    /\ hasSection
    /\ release.notes
    /\ ~token
    /\ release.calls = {"browser"}
    /\ outcome = "done"

\* C18: at every exit of the release process the root manifest and the
\* package manifests hold one and the same version, the pre-release one or
\* the target one.
C18_ManifestsAgreeAtExit ==
    pc = "exited" =>
        \/ AllManifestsAt(currentVersion)
        \/ AllManifestsAt(targetVersion)

\* a step after tag-and-push threw in a run that is not a dry run
FailedAfterTagAndPush ==
    /\ ~isDryRun
    /\ thrown \in {"publishRelease", "buildAll", "publishAll"}

\* what a failed release leaves behind once the handler has run: the commit
\* (if one was made), the tag and the pushes stand, the changelog and the
\* lockfile were regenerated, and the manifests are back at the pre-release
\* version
TagStandsVersionsBack ==
    (FailedAfterTagAndPush /\ pc = "exited") =>
        /\ git.tagged /\ git.tagPushed /\ git.pushed
        /\ "git commit" \in Cmds => git.committed
        /\ {"conventional-changelog", "pnpm install"} \subseteq Cmds
        /\ rolledBack
        /\ AllManifestsAt(currentVersion)

\* C19: the rollback handler changes nothing but the manifests' version
\* fields, which it leaves alone or sets to the pre-release version: it runs
\* no command and leaves the repository, the remote, the changelog, the
\* release and the registry as they were at the failure; so after a failure
\* past tag-and-push in a non-dry run the pushed tag remains while the
\* manifests return to the pre-release version.
C19_RollbackTouchesOnlyVersions ==
    [][ /\ pc = "catch" =>
            /\ git' = git
            /\ executed' = executed
            /\ hasSection' = hasSection
            /\ release' = release
            /\ published' = published
            /\ \A m \in Manifests : manifest'[m] \in {manifest[m], currentVersion}
        /\ TagStandsVersionsBack' ]_vars

C19_Witness ==
    /\ FailedAfterTagAndPush
    /\ pc = "exited"
    /\ rolledBack
    /\ git.tagPushed
    /\ targetVersion # currentVersion
    /\ AllManifestsAt(currentVersion)

-----------------------------------------------------------------------------
(* Properties of the build *)

WritesDone(f) == \A i \in IconIds, k \in Kinds : wr[<<f, i, k>>] = "done"

\* C10: build(target, format) writes its index files and resolves only
\* after the .js and .d.ts write of every icon of that format has finished,
\* and main logs 'Finished building' only after every write of both formats
\* has finished.
C10_CompletionAfterAllWrites ==
    /\ \A f \in Formats : bpc[f] \in {"indexDts", "resolved"} => WritesDone(f)
    /\ mainPc = "finished" => \A f \in Formats : WritesDone(f)

\* some read, transform or write of the build run has failed
AnyFailure ==
    \/ \E f \in Formats : bpc[f] = "rejected"
    \/ \E x \in DOMAIN cb : cb[x] = "failed"
    \/ \E x \in DOMAIN wr : wr[x] = "failed"

\* the build run is over: both builds have settled and no callback or
\* write is outstanding
BuildOver ==
    /\ \A f \in Formats : bpc[f] \in {"resolved", "rejected"}
    /\ \A x \in DOMAIN cb : cb[x] # "transform"
    /\ \A x \in DOMAIN wr : wr[x] # "pending"

\* C11: when a build run is over, every failure that happened in it
\* (reading the assets, transforming an icon, writing a component,
\* declaration or index file) has been caught by main's handler, which
\* logged it.
C11_EveryFailureCaughtByMain ==
    (BuildOver /\ AnyFailure) =>
        /\ mainPc = "caught"
        /\ \E n \in 1..Len(console) : console[n] = "error"

\* the file a write task targets
TargetOf(x) == Path(x[1], componentName(x[2]), x[3])

\* C15: at no time of a build run are two distinct outstanding write tasks
\* targeting the same file path.
C15_NoTwoWritesSamePath ==
    \A x, y \in DOMAIN wr :
        (x # y /\ wr[x] = "pending" /\ wr[y] = "pending") => TargetOf(x) # TargetOf(y)

\* C16: when the build is over and two assets have the same component name,
\* the component file and the declaration file of that name, in both
\* formats, hold the output made from the one later in the listing.
C16_LaterFileWins ==
    BuildOver =>
        \A i, j \in IconIds :
            (i < j /\ componentName(i) = componentName(j)) =>
                \A f \in Formats :
                    /\ disk[Path(f, componentName(j), "js")] = ComponentText(j)
                    /\ disk[Path(f, componentName(j), "dts")] = DeclarationText(j)

====
